---- MODULE Spec2Model ----
(***************************************************************************)
(* Model of woodcraft's cut list optimizer                                 *)
(* (src/src/woodcraft/generators/cutlist.py), of the project it reads      *)
(* (engine/modeler.py), of the tool handlers that drive both               *)
(* (tools/project.py, tools/cutlist.py), of the ProjectManager registry    *)
(* (tools/project.py) and of the AssemblyManager (engine/assembly.py).     *)
(*                                                                         *)
(* Lengths are exact multiples of a "tick": one tick is 1/SubMil of 0.001  *)
(* working unit, so that int(x * 1000) really truncates.  Areas are in     *)
(* ticks squared.  A percentage is kept as the exact fraction num / den.   *)
(***************************************************************************)
EXTENDS Integers, Sequences, FiniteSets, TLC

VARIABLES
    pc,             \* position inside the running call
    pieces,         \* the `pieces` argument (list of CutPiece)
    stock_list,     \* optimize: the stock sheet list
    sorted_rect,    \* packer: rectangles still to be packed, in packing order
    empty_bins,     \* packer: bin factories, in add_bin order
    open_bins,      \* packer: opened bins, in opening order
    result,         \* optimize: the CutListResult being returned
    kerf,           \* self.kerf
    stock_lengths,  \* optimize_linear: the catalog of board lengths
    sorted_pieces,  \* optimize_linear: expanded pieces still to be processed
    stock_usage,    \* optimize_linear: boards opened so far
    lin_result,     \* optimize_linear: the returned dict
    parts,          \* project.parts (list of Part)
    custom_pieces,  \* project._custom_pieces (list of CutPiece)
    ret,            \* what the last project operation returned
    tool,           \* the CutListTools handler that is running
    earlier,        \* what an earlier run on the same optimizer returned
    projects,       \* ProjectManager._projects (dict, in insertion order)
    active,         \* ProjectManager._active_project (<<>> is None)
    assemblies      \* AssemblyManager.assemblies (dict, in insertion order)

\* the state of the caller: the project and the running tool handler
\* the registries kept beside the project: the ProjectManager and the
\* project's AssemblyManager
managers == <<projects, active, assemblies>>

caller == <<parts, custom_pieces, ret, tool, earlier, managers>>

vars == <<pc, pieces, stock_list, sorted_rect, empty_bins, open_bins, result,
          kerf, stock_lengths, sorted_pieces, stock_usage, lin_result,
          caller>>

---------------------------------------------------------------------------
(* Bounds of the model *)

SubMil == 2        \* ticks per 0.001 unit (resolution of the modelled floats)
MaxPieces == 2     \* longest piece list
MaxQty == 2        \* largest quantity of one piece
MaxStock == 2      \* longest stock sheet list / board catalog

(* Program constants *)

MilsPerUnit == 1000   \* the factor of int(x * 1000) and x / 1000.0
RotTolMils == 10      \* the 0.01 tolerance of the rotation test, in 0.001 units
BinCount == 999       \* add_bin(..., count=999)

Unit == MilsPerUnit * SubMil    \* ticks in one working unit

---------------------------------------------------------------------------
(* Generic helpers *)

Min2(a, b) == IF a <= b THEN a ELSE b

Abs(a) == IF a >= 0 THEN a ELSE -a

RECURSIVE SumSeq(_)
SumSeq(s) == IF s = <<>> THEN 0 ELSE Head(s) + SumSeq(Tail(s))

RECURSIVE Flatten(_)
Flatten(ss) == IF ss = <<>> THEN <<>> ELSE Head(ss) \o Flatten(Tail(ss))

Range(s) == {s[i] : i \in 1..Len(s)}

SeqsUpTo(S, n) == UNION {[1..k -> S] : k \in 0..n}

---------------------------------------------------------------------------
(* Unit conversions of optimize *)

\* int(x * 1000): truncation toward zero of a length given in ticks
ToMils(t) ==
    IF t >= 0 THEN (t * MilsPerUnit) \div Unit
    ELSE -(((-t) * MilsPerUnit) \div Unit)

\* x / 1000.0: a packer coordinate back in ticks
FromMils(m) == (m * Unit) \div MilsPerUnit

---------------------------------------------------------------------------
(* Data classes *)

CutPiece(id, l, w, q, g) ==
    [part_id |-> id, length |-> l, width |-> w, quantity |-> q,
     label |-> "", grain_constrained |-> g]

\* CutPiece.area with the quantity forgotten
PieceAreaOfOne(p) == p.length * p.width

\* CutPiece.area
PieceArea(p) == p.length * p.width * p.quantity

StockSheet(w, l, m) ==
    [width |-> w, length |-> l, material |-> m, thickness |-> 750, cost |-> 0]

\* the area of a sheet taken as if the sheet were square
SheetAreaOfLength(s) == s.length * s.length

\* StockSheet.area
SheetArea(s) == s.length * s.width

\* PlacedPiece.width
PlacedWidth(pp) == IF ~pp.rotated THEN pp.piece.width ELSE pp.piece.length

\* PlacedPiece.length
PlacedLength(pp) == IF ~pp.rotated THEN pp.piece.length ELSE pp.piece.width

\* CutListResult()
EmptyResult ==
    [sheets |-> <<>>, unplaced |-> <<>>, total_stock_area |-> 0,
     total_parts_area |-> 0, waste_percentage |-> [num |-> 0, den |-> 1]]

---------------------------------------------------------------------------
(* The packer optimize builds: newPacker(Offline, BFF, MaxRectsBssf,
   SORT_AREA, rotation=True).  Rectangles are [x, y, width, height]; a bin
   keeps its maximal free rectangles and the rectangles placed in it. *)

Rect(x, y, w, h) == [x |-> x, y |-> y, width |-> w, height |-> h]

Left(r) == r.x
Right(r) == r.x + r.width
Bottom(r) == r.y
Top(r) == r.y + r.height

\* Rectangle.intersects(rect, edges=False)
Intersects(a, b) ==
    ~(Bottom(a) >= Top(b) \/ Top(a) <= Bottom(b)
      \/ Left(a) >= Right(b) \/ Right(a) <= Left(b))

\* Rectangle.contains
Contains(a, b) ==
    /\ b.y >= a.y /\ b.x >= a.x
    /\ b.y + b.height <= a.y + a.height
    /\ b.x + b.width <= a.x + a.width

NoFit == -1

\* MaxRectsBssf._rect_fitness
RectFitness(m, w, h) ==
    IF w > m.width \/ h > m.height THEN NoFit
    ELSE Min2(m.width - w, m.height - h)

\* the candidates of one orientation, in max_rects order
FitSeq(max_rects, w, h) ==
    SelectSeq([i \in 1..Len(max_rects) |->
                  [fit |-> RectFitness(max_rects[i], w, h),
                   w |-> w, h |-> h, m |-> max_rects[i]]],
              LAMBDA c : c.fit # NoFit)

\* min(fit, key=first_item): the first candidate of least fitness
FirstMin(cands) ==
    LET best == CHOOSE i \in 1..Len(cands) :
                    /\ \A j \in 1..Len(cands) : cands[i].fit <= cands[j].fit
                    /\ \A j \in 1..(i - 1) : cands[j].fit > cands[i].fit
    IN cands[best]

\* MaxRects._select_position: <<>> or <<the placed rectangle>>
SelectPosition(max_rects, w, h, rot) ==
    LET fitn == FitSeq(max_rects, w, h)
        fitr == IF rot THEN FitSeq(max_rects, h, w) ELSE <<>>
        fit == fitn \o fitr
    IN IF fit = <<>> THEN <<>>
       ELSE LET c == FirstMin(fit) IN <<Rect(c.m.x, c.m.y, c.w, c.h)>>

\* MaxRects._generate_splits
GenerateSplits(m, r) ==
    (IF Left(r) > Left(m)
        THEN <<Rect(Left(m), Bottom(m), Left(r) - Left(m), m.height)>>
        ELSE <<>>)
    \o (IF Right(r) < Right(m)
        THEN <<Rect(Right(r), Bottom(m), Right(m) - Right(r), m.height)>>
        ELSE <<>>)
    \o (IF Top(r) < Top(m)
        THEN <<Rect(Left(m), Top(r), m.width, Top(m) - Top(r))>>
        ELSE <<>>)
    \o (IF Bottom(r) > Bottom(m)
        THEN <<Rect(Left(m), Bottom(m), m.width, Bottom(r) - Bottom(m))>>
        ELSE <<>>)

\* MaxRects._split
Split(max_rects, rect) ==
    Flatten([i \in 1..Len(max_rects) |->
                IF Intersects(max_rects[i], rect)
                THEN GenerateSplits(max_rects[i], rect)
                ELSE <<max_rects[i]>>])

\* MaxRects._remove_duplicates
RemoveDuplicates(max_rects) ==
    LET n == Len(max_rects)
        contained ==
            {max_rects[j] : j \in {j \in 1..n : \E i \in 1..(j - 1) :
                                        Contains(max_rects[i], max_rects[j])}}
            \cup
            {max_rects[i] : i \in {i \in 1..n : \E j \in (i + 1)..n :
                                        /\ ~Contains(max_rects[i], max_rects[j])
                                        /\ Contains(max_rects[j], max_rects[i])}}
    IN SelectSeq(max_rects, LAMBDA m : m \notin contained)

\* MaxRectsBssf(width, height, rot): an empty bin
NewBin(w, h, rot) ==
    [width |-> w, height |-> h, rot |-> rot,
     max_rects |-> <<Rect(0, 0, w, h)>>, rectangles |-> <<>>]

\* MaxRects.add_rect: <<>> when the rectangle does not fit, else <<bin'>>
BinAddRect(b, w, h, rid) ==
    LET sel == SelectPosition(b.max_rects, w, h, b.rot)
    IN IF sel = <<>> THEN <<>>
       ELSE LET r == sel[1]
            IN <<[b EXCEPT
                    !.max_rects = RemoveDuplicates(Split(b.max_rects, r)),
                    !.rectangles = Append(b.rectangles,
                        [x |-> r.x, y |-> r.y, width |-> r.width,
                         height |-> r.height, rid |-> rid])]>>

\* PackingAlgorithm._fits_surface, as asked of a bin factory (fits_inside)
FitsSurface(f, w, h) ==
    LET swap == f.rot /\ (w > f.width \/ h > f.height)
        w2 == IF swap THEN h ELSE w
        h2 == IF swap THEN w ELSE h
    IN ~(w2 > f.width \/ h2 > f.height)

\* SORT_AREA: sorted(rectlist, reverse=True, key=lambda r: r[0]*r[1]).
\* Python's sort is stable, also with reverse=True: rectangles of equal area
\* keep the order in which they were added.
RectAreaKey(r) == r[1] * r[2]

RECURSIVE InsertByArea(_, _)
InsertByArea(sorted, e) ==
    IF sorted = <<>> THEN <<e>>
    ELSE IF RectAreaKey(Head(sorted)) >= RectAreaKey(e)
         THEN <<Head(sorted)>> \o InsertByArea(Tail(sorted), e)
         ELSE <<e>> \o sorted

RECURSIVE SortArea(_)
SortArea(rects) ==
    IF rects = <<>> THEN <<>>
    ELSE InsertByArea(SortArea(SubSeq(rects, 1, Len(rects) - 1)),
                      rects[Len(rects)])

\* PackerOnline._new_open_bin: the first factory, in add_bin order, that the
\* rectangle fits inside and that still has a bin (0 when there is none)
FirstFactoryFit(empty, w, h) ==
    LET ok == {i \in 1..Len(empty) :
                  FitsSurface(empty[i], w, h) /\ empty[i].count > 0}
    IN IF ok = {} THEN 0 ELSE CHOOSE i \in ok : \A j \in ok : i <= j

\* BinFactory.new_bin, and the deletion of a depleted factory
TakeBin(empty, i) ==
    IF empty[i].count - 1 < 1
    THEN SubSeq(empty, 1, i - 1) \o SubSeq(empty, i + 1, Len(empty))
    ELSE [empty EXCEPT ![i].count = @ - 1]

\* PackerBFFMixin.add_rect, first half: the first open bin, in opening
\* order, that accepts the rectangle (0 when there is none)
FirstOpenFit(open, w, h, rid) ==
    LET ok == {i \in 1..Len(open) : BinAddRect(open[i], w, h, rid) # <<>>}
    IN IF ok = {} THEN 0 ELSE CHOOSE i \in ok : \A j \in ok : i <= j

\* PackerBFFMixin.add_rect, second half: the `while True` loop that opens
\* bins until one accepts the rectangle or no factory fits it
RECURSIVE OpenBinFor(_, _, _, _, _)
OpenBinFor(open, empty, w, h, rid) ==
    LET i == FirstFactoryFit(empty, w, h)
    IN IF i = 0
       THEN [open |-> open, empty |-> empty, placed |-> FALSE]
       ELSE LET nb == NewBin(empty[i].width, empty[i].height, empty[i].rot)
                added == BinAddRect(nb, w, h, rid)
            IN IF added # <<>>
               THEN [open |-> Append(open, added[1]),
                     empty |-> TakeBin(empty, i), placed |-> TRUE]
               ELSE OpenBinFor(Append(open, nb), TakeBin(empty, i), w, h, rid)

\* PackerOnline.rect_list: (bin index, x, y, w, h, rid), bin by bin
RectList(open) ==
    Flatten([b \in 1..Len(open) |->
                [k \in 1..Len(open[b].rectangles) |->
                    [bin_idx |-> b - 1,
                     x |-> open[b].rectangles[k].x,
                     y |-> open[b].rectangles[k].y,
                     w |-> open[b].rectangles[k].width,
                     h |-> open[b].rectangles[k].height,
                     rid |-> open[b].rectangles[k].rid]]])

---------------------------------------------------------------------------
(* CutListOptimizer.optimize *)

\* piece_map: entry rid + 1 is the piece that rectangle rid was made from
PieceMap(ps) ==
    Flatten([i \in 1..Len(ps) |-> [q \in 1..ps[i].quantity |-> ps[i]]])

\* the add_rect calls: (int(length * 1000), int(width * 1000), rid)
AvailRect(ps) ==
    LET pm == PieceMap(ps)
    IN [k \in 1..Len(pm) |->
           <<ToMils(pm[k].length), ToMils(pm[k].width), k - 1>>]

\* the add_bin calls: bin width is the sheet's length, bin height its width
AvailBins(stock) ==
    [i \in 1..Len(stock) |->
        [width |-> ToMils(stock[i].length), height |-> ToMils(stock[i].width),
         count |-> BinCount, rot |-> TRUE]]

\* the 0.01 tolerance, in ticks
RotTol == (RotTolMils * Unit) \div MilsPerUnit

\* rotated = abs(w_in - piece.width) < 0.01
IsRotated(w, piece) == Abs(FromMils(w) - piece.width) < RotTol

\* the PlacedPiece made from one entry of rect_list
MakePlaced(rect, pm) ==
    [piece |-> pm[rect.rid + 1], x |-> FromMils(rect.x), y |-> FromMils(rect.y),
     rotated |-> IsRotated(rect.w, pm[rect.rid + 1])]

\* sheet_idx = min(bin_idx, len(stock_list) - 1)
SheetIdx(bin_idx, stock) == Min2(bin_idx, Len(stock) - 1)

\* result.sheets: one (StockSheet, placements) pair per bin index that occurs
\* in rect_list, in order of first occurrence
BuildSheets(rl, pm, stock) ==
    LET keys == SelectSeq([b \in 1..Len(rl) |-> rl[b].bin_idx],
                          LAMBDA k : TRUE)
        first == SelectSeq([i \in 1..Len(rl) |-> i],
                     LAMBDA i : \A j \in 1..(i - 1) : keys[j] # keys[i])
    IN [n \in 1..Len(first) |->
           LET bi == keys[first[n]]
               mine == SelectSeq(rl, LAMBDA r : r.bin_idx = bi)
           IN [stock |-> stock[SheetIdx(bi, stock) + 1],
               pieces |-> [k \in 1..Len(mine) |-> MakePlaced(mine[k], pm)]]]

\* the unplaced loop testing rid + 1 instead of rid against the placed rids
RECURSIVE FindUnplacedOffByOne(_, _, _, _)
FindUnplacedOffByOne(pm, k, placed_rids, acc) ==
    IF k > Len(pm) THEN acc
    ELSE FindUnplacedOffByOne(pm, k + 1, placed_rids,
             IF k \notin placed_rids /\ pm[k] \notin Range(acc)
             THEN Append(acc, pm[k]) ELSE acc)

\* the unplaced loop: pieces of rectangles missing from rect_list, each piece
\* (compared by value, as dataclasses are) listed once
RECURSIVE FindUnplaced(_, _, _, _)
FindUnplaced(pm, k, placed_rids, acc) ==
    IF k > Len(pm) THEN acc
    ELSE FindUnplaced(pm, k + 1, placed_rids,
             IF (k - 1) \notin placed_rids /\ pm[k] \notin Range(acc)
             THEN Append(acc, pm[k]) ELSE acc)

\* waste_percentage, as a fraction
WastePercentage(stock_area, parts_area) ==
    IF stock_area > 0
    THEN [num |-> (stock_area - parts_area) * 100, den |-> stock_area]
    ELSE [num |-> 0, den |-> 1]

\* the CutListResult made from the packer's final state
BuildResult(open, ps, stock) ==
    LET rl == RectList(open)
        pm == PieceMap(ps)
        sheets == BuildSheets(rl, pm, stock)
        stock_area == SumSeq([n \in 1..Len(sheets) |-> SheetArea(sheets[n].stock)])
        parts_area == SumSeq([i \in 1..Len(ps) |-> PieceArea(ps[i])])
    IN [sheets |-> sheets,
        unplaced |-> FindUnplaced(pm, 1, {rl[i].rid : i \in 1..Len(rl)}, <<>>),
        total_stock_area |-> stock_area,
        total_parts_area |-> parts_area,
        waste_percentage |-> WastePercentage(stock_area, parts_area)]

\* optimize handing its rectangles to a packer kept from the call before,
\* with the bins that call opened still in it
OptimizeCallKeepingPacker ==
    /\ pc = "call"
    /\ LET rects == AvailRect(pieces)
           bins == AvailBins(stock_list)
       IN IF rects = <<>> \/ bins = <<>>
          THEN /\ empty_bins' = <<>>
               /\ sorted_rect' = <<>>
          ELSE /\ empty_bins' = bins
               /\ sorted_rect' = SortArea(rects)
    /\ pc' = "packing"
    /\ UNCHANGED <<caller, open_bins, pieces, stock_list, result, kerf,
                   stock_lengths, sorted_pieces, stock_usage, lin_result>>

\* optimize up to packer.pack(): bins and rectangles are handed over; pack()
\* resets the packer, returns at once unless there is a rectangle and a bin,
\* and otherwise sorts the rectangles by area
OptimizeCall ==
    /\ pc = "call"
    /\ LET rects == AvailRect(pieces)
           bins == AvailBins(stock_list)
       IN IF rects = <<>> \/ bins = <<>>
          THEN /\ empty_bins' = <<>>
               /\ sorted_rect' = <<>>
          ELSE /\ empty_bins' = bins
               /\ sorted_rect' = SortArea(rects)
    /\ open_bins' = <<>>
    /\ pc' = "packing"
    /\ UNCHANGED <<caller, pieces, stock_list, result, kerf, stock_lengths,
                   sorted_pieces, stock_usage, lin_result>>

\* pack(): the next rectangle goes into the first open bin that accepts it
PackIntoOpenBin ==
    /\ pc = "packing" /\ sorted_rect # <<>>
    /\ LET r == Head(sorted_rect)
           i == FirstOpenFit(open_bins, r[1], r[2], r[3])
       IN /\ i # 0
          /\ open_bins' = [open_bins EXCEPT
                              ![i] = BinAddRect(open_bins[i], r[1], r[2], r[3])[1]]
    /\ sorted_rect' = Tail(sorted_rect)
    /\ UNCHANGED <<caller, pc, pieces, stock_list, empty_bins, result, kerf,
                   stock_lengths, sorted_pieces, stock_usage, lin_result>>

\* pack(): no open bin accepts the rectangle, a new bin is opened for it
PackIntoNewBin ==
    /\ pc = "packing" /\ sorted_rect # <<>>
    /\ LET r == Head(sorted_rect)
           got == OpenBinFor(open_bins, empty_bins, r[1], r[2], r[3])
       IN /\ FirstOpenFit(open_bins, r[1], r[2], r[3]) = 0
          /\ got.placed
          /\ open_bins' = got.open
          /\ empty_bins' = got.empty
    /\ sorted_rect' = Tail(sorted_rect)
    /\ UNCHANGED <<caller, pc, pieces, stock_list, result, kerf, stock_lengths,
                   sorted_pieces, stock_usage, lin_result>>

\* pack(): no bin, open or new, takes the rectangle; add_rect returns None
PackNowhere ==
    /\ pc = "packing" /\ sorted_rect # <<>>
    /\ LET r == Head(sorted_rect)
           got == OpenBinFor(open_bins, empty_bins, r[1], r[2], r[3])
       IN /\ FirstOpenFit(open_bins, r[1], r[2], r[3]) = 0
          /\ ~got.placed
          /\ open_bins' = got.open
          /\ empty_bins' = got.empty
    /\ sorted_rect' = Tail(sorted_rect)
    /\ UNCHANGED <<caller, pc, pieces, stock_list, result, kerf, stock_lengths,
                   sorted_pieces, stock_usage, lin_result>>

\* optimize after pack(): the result is built and returned
OptimizeReturn ==
    /\ pc = "packing" /\ sorted_rect = <<>>
    /\ result' = BuildResult(open_bins, pieces, stock_list)
    /\ pc' = "done"
    /\ UNCHANGED <<caller, pieces, stock_list, sorted_rect, empty_bins, open_bins,
                   kerf, stock_lengths, sorted_pieces, stock_usage, lin_result>>

---------------------------------------------------------------------------
(* The calls of optimize that are explored *)

\* a tenth of a working unit, in ticks: the explored dimensions are small
\* multiples of it (areas stay within TLC's integers)
Cell == (Unit \div MilsPerUnit) * 100

\* (part_id, length, width, grain_constrained): a square, a strip, a strip
\* longer than every sheet, and a piece whose sides differ by less than 0.001
PieceKinds ==
    {<<"a", Cell, Cell, TRUE>>, <<"b", Cell, Cell, FALSE>>,
     <<"a", 4 * Cell, Cell, TRUE>>, <<"b", 4 * Cell, Cell, FALSE>>,
     <<"b", 5 * Cell, Cell, FALSE>>,
     <<"a", 2 * Cell + 1, 2 * Cell, TRUE>>}

PieceChoices ==
    {CutPiece(k[1], k[2], k[3], q, k[4]) : k \in PieceKinds, q \in 0..MaxQty}

SheetChoices ==
    {StockSheet(2 * Cell, 4 * Cell, "plywood"),
     StockSheet(4 * Cell, Cell, "mdf")}

DefaultKerf == 125 * SubMil     \* DEFAULT_KERF = 0.125

NoLinResult ==
    [stocks |-> <<>>, total_stock_length |-> 0, total_used_length |-> 0,
     waste_length |-> 0, waste_percentage |-> [num |-> 0, den |-> 1]]

---------------------------------------------------------------------------
(* Project and Part (engine/modeler.py), and the demand made from them *)

\* a Part: the fields the cut list reads (part_type, material, notes,
\* position and rotation play no role here); thickness is 0.75
Part(id, l, w, q, g) ==
    [id |-> id,
     dimensions |-> [length |-> l, width |-> w, thickness |-> 750 * SubMil],
     quantity |-> q, grain_direction |-> g]

\* Project.get_part: the position in the list of the first part with that
\* id, 0 standing for None
get_part(ps, part_id) ==
    LET found == {i \in 1..Len(ps) : ps[i].id = part_id}
    IN IF found = {} THEN 0 ELSE CHOOSE i \in found : \A j \in found : i <= j

\* add_part without the look-up of the id
add_part_unchecked(ps, part) ==
    [parts |-> Append(ps, part), raised |-> FALSE]

\* Project.add_part: the list afterwards, and whether ValueError was raised
add_part(ps, part) ==
    IF get_part(ps, part.id) # 0
    THEN [parts |-> ps, raised |-> TRUE]
    ELSE [parts |-> Append(ps, part), raised |-> FALSE]

\* remove_part popping the end of the list instead of position i
remove_part_last(ps, part_id) ==
    IF get_part(ps, part_id) # 0
    THEN [parts |-> SubSeq(ps, 1, Len(ps) - 1), returned |-> TRUE]
    ELSE [parts |-> ps, returned |-> FALSE]

\* Project.remove_part: the list afterwards, and the returned bool
remove_part(ps, part_id) ==
    LET i == get_part(ps, part_id)
    IN IF i # 0
       THEN [parts |-> SubSeq(ps, 1, i - 1) \o SubSeq(ps, i + 1, Len(ps)),
             returned |-> TRUE]
       ELSE [parts |-> ps, returned |-> FALSE]

\* generate_cut_pieces adding the kerf to the length only
generate_cut_pieces_length_only(ps, k) ==
    [i \in 1..Len(ps) |->
        [CutPiece(ps[i].id, ps[i].dimensions.length + k,
                  ps[i].dimensions.width, ps[i].quantity,
                  ps[i].grain_direction # "none")
         EXCEPT !.label = ps[i].id]]

\* CutListOptimizer.generate_cut_pieces, for self.project.parts = ps and
\* self.kerf = k
generate_cut_pieces(ps, k) ==
    [i \in 1..Len(ps) |->
        [CutPiece(ps[i].id, ps[i].dimensions.length + k,
                  ps[i].dimensions.width + k, ps[i].quantity,
                  ps[i].grain_direction # "none")
         EXCEPT !.label = ps[i].id]]

\* no project operation has returned yet
NoRet == [op |-> "", id |-> "", ok |-> TRUE]

\* no earlier run to compare with
NoEarlier == [runs |-> 0, result |-> EmptyResult, lin_result |-> NoLinResult]

\* the caller when the optimizer is called directly, with no project parts
NoCaller ==
    /\ parts = <<>>
    /\ custom_pieces = <<>>
    /\ ret = NoRet
    /\ tool = ""
    /\ earlier = NoEarlier
    /\ projects = <<>>
    /\ active = <<>>
    /\ assemblies = <<>>

---------------------------------------------------------------------------
InitOptimize ==
    /\ pc = "call"
    /\ NoCaller
    /\ pieces \in SeqsUpTo(PieceChoices, MaxPieces)
    /\ stock_list \in SeqsUpTo(SheetChoices, MaxStock)
    /\ sorted_rect = <<>>
    /\ empty_bins = <<>>
    /\ open_bins = <<>>
    /\ result = EmptyResult
    /\ kerf = DefaultKerf
    /\ stock_lengths = <<>>
    /\ sorted_pieces = <<>>
    /\ stock_usage = <<>>
    /\ lin_result = NoLinResult

NextOptimize ==
    \/ OptimizeCall
    \/ PackIntoOpenBin
    \/ PackIntoNewBin
    \/ PackNowhere
    \/ OptimizeReturn

SpecOptimize == InitOptimize /\ [][NextOptimize]_vars

---------------------------------------------------------------------------
(* CutListOptimizer.optimize_linear *)

\* the expansion loop: quantity references to each piece, in list order
ExpandPieces(ps) ==
    Flatten([i \in 1..Len(ps) |-> [q \in 1..ps[i].quantity |-> ps[i]]])

\* sorted_pieces.sort(key=lambda p: p.length, reverse=True): stable
RECURSIVE InsertByLength(_, _)
InsertByLength(sorted, e) ==
    IF sorted = <<>> THEN <<e>>
    ELSE IF Head(sorted).length >= e.length
         THEN <<Head(sorted)>> \o InsertByLength(Tail(sorted), e)
         ELSE <<e>> \o sorted

RECURSIVE SortByLength(_)
SortByLength(ps) ==
    IF ps = <<>> THEN <<>>
    ELSE InsertByLength(SortByLength(SubSeq(ps, 1, Len(ps) - 1)), ps[Len(ps)])

\* piece_len = piece.length + self.kerf
PieceLen(piece, k) == piece.length + k

\* the fit test reading the board's length instead of what remains of it
BoardFitsByLength(board, piece_len) == board.length >= piece_len

\* stock["remaining"] >= piece_len
BoardFits(board, piece_len) == board.remaining >= piece_len

\* the scan taking the board opened last among those with room
LastBoardFit(usage, piece_len) ==
    LET ok == {i \in 1..Len(usage) : BoardFits(usage[i], piece_len)}
    IN IF ok = {} THEN 0 ELSE CHOOSE i \in ok : \A j \in ok : i >= j

\* the first opened board with room for the piece (0 when there is none)
FirstBoardFit(usage, piece_len) ==
    LET ok == {i \in 1..Len(usage) : BoardFits(usage[i], piece_len)}
    IN IF ok = {} THEN 0 ELSE CHOOSE i \in ok : \A j \in ok : i <= j

\* the append recording every piece at the front of its board
PlaceOnBoardAtFront(board, piece, piece_len) ==
    [board EXCEPT
        !.pieces = Append(@, [part_id |-> piece.part_id,
                              length |-> piece.length,
                              position |-> 0]),
        !.remaining = @ - piece_len]

\* the append to stock["pieces"] and the decrement of stock["remaining"]
PlaceOnBoard(board, piece, piece_len) ==
    [board EXCEPT
        !.pieces = Append(@, [part_id |-> piece.part_id,
                              length |-> piece.length,
                              position |-> board.length - board.remaining]),
        !.remaining = @ - piece_len]

\* suitable = [s for s in stock_lengths if s >= piece_len]
Suitable(lengths, piece_len) == {s \in Range(lengths) : s >= piece_len}

\* the largest suitable length instead of the smallest
MaxOf(S) == CHOOSE s \in S : \A t \in S : s >= t

\* min(suitable)
MinOf(S) == CHOOSE s \in S : \A t \in S : s <= t

\* a board opened without charging it for its first piece
NewBoardUncharged(stock_len, piece, piece_len) ==
    [stock_length |-> stock_len, length |-> stock_len,
     remaining |-> stock_len,
     pieces |-> <<[part_id |-> piece.part_id, length |-> piece.length,
                   position |-> 0]>>]

\* the board appended to stock_usage for a piece that opens it
NewBoard(stock_len, piece, piece_len) ==
    [stock_length |-> stock_len, length |-> stock_len,
     remaining |-> stock_len - piece_len,
     pieces |-> <<[part_id |-> piece.part_id, length |-> piece.length,
                   position |-> 0]>>]

\* the statistics and the returned dict
LinearResult(usage) ==
    LET total_stock == SumSeq([i \in 1..Len(usage) |-> usage[i].stock_length])
        total_used ==
            SumSeq([i \in 1..Len(usage) |->
                       SumSeq([k \in 1..Len(usage[i].pieces) |->
                                  usage[i].pieces[k].length])])
        waste == IF total_stock > 0 THEN total_stock - total_used ELSE 0
    IN [stocks |-> usage,
        total_stock_length |-> total_stock,
        total_used_length |-> total_used,
        waste_length |-> waste,
        waste_percentage |->
            IF total_stock > 0 THEN [num |-> waste * 100, den |-> total_stock]
            ELSE [num |-> 0, den |-> 1]]

\* optimize_linear expanding and sorting the list it was given, in place
LinearCallSortingInPlace ==
    /\ pc = "call"
    /\ pieces' = SortByLength(ExpandPieces(pieces))
    /\ sorted_pieces' = pieces'
    /\ stock_usage' = <<>>
    /\ pc' = "fitting"
    /\ UNCHANGED <<caller, stock_list, sorted_rect, empty_bins, open_bins,
                   result, kerf, stock_lengths, lin_result>>

\* optimize_linear up to the packing loop: expansion and sort
LinearCall ==
    /\ pc = "call"
    /\ sorted_pieces' = SortByLength(ExpandPieces(pieces))
    /\ stock_usage' = <<>>
    /\ pc' = "fitting"
    /\ UNCHANGED <<caller, pieces, stock_list, sorted_rect, empty_bins, open_bins,
                   result, kerf, stock_lengths, lin_result>>

\* one turn of the loop: the piece goes on the first opened board with room
LinearPlaceExisting ==
    /\ pc = "fitting" /\ sorted_pieces # <<>>
    /\ LET piece == Head(sorted_pieces)
           piece_len == PieceLen(piece, kerf)
           i == FirstBoardFit(stock_usage, piece_len)
       IN /\ i # 0
          /\ stock_usage' = [stock_usage EXCEPT
                                ![i] = PlaceOnBoard(@, piece, piece_len)]
    /\ sorted_pieces' = Tail(sorted_pieces)
    /\ UNCHANGED <<caller, pc, pieces, stock_list, sorted_rect, empty_bins, open_bins,
                   result, kerf, stock_lengths, lin_result>>

\* one turn of the loop: no opened board has room, the smallest suitable
\* catalog length is opened
LinearOpenBoard ==
    /\ pc = "fitting" /\ sorted_pieces # <<>>
    /\ LET piece == Head(sorted_pieces)
           piece_len == PieceLen(piece, kerf)
           suitable == Suitable(stock_lengths, piece_len)
       IN /\ FirstBoardFit(stock_usage, piece_len) = 0
          /\ suitable # {}
          /\ stock_usage' = Append(stock_usage,
                                NewBoard(MinOf(suitable), piece, piece_len))
    /\ sorted_pieces' = Tail(sorted_pieces)
    /\ UNCHANGED <<caller, pc, pieces, stock_list, sorted_rect, empty_bins, open_bins,
                   result, kerf, stock_lengths, lin_result>>

\* one turn of the loop: no opened board has room and no catalog length is
\* suitable; the loop goes on to the next piece and records nothing
LinearSkip ==
    /\ pc = "fitting" /\ sorted_pieces # <<>>
    /\ LET piece == Head(sorted_pieces)
           piece_len == PieceLen(piece, kerf)
       IN /\ FirstBoardFit(stock_usage, piece_len) = 0
          /\ Suitable(stock_lengths, piece_len) = {}
    /\ sorted_pieces' = Tail(sorted_pieces)
    /\ UNCHANGED <<caller, pc, pieces, stock_list, sorted_rect, empty_bins, open_bins,
                   result, kerf, stock_lengths, stock_usage, lin_result>>

\* after the loop: the statistics are computed and the dict returned
LinearReturn ==
    /\ pc = "fitting" /\ sorted_pieces = <<>>
    /\ lin_result' = LinearResult(stock_usage)
    /\ pc' = "done"
    /\ UNCHANGED <<caller, pieces, stock_list, sorted_rect, empty_bins, open_bins,
                   result, kerf, stock_lengths, sorted_pieces, stock_usage>>

---------------------------------------------------------------------------
(* The calls of optimize_linear that are explored *)

\* (part_id, length)
LinearKinds ==
    {<<"a", 2 * Cell>>, <<"a", 3 * Cell>>, <<"b", 3 * Cell>>,
     <<"a", 4 * Cell>>, <<"b", 4 * Cell>>, <<"b", 9 * Cell>>}

LinearPieceChoices ==
    {CutPiece(k[1], k[2], Cell, q, TRUE) : k \in LinearKinds, q \in 0..MaxQty}

BoardLengths == {8 * Cell, 9 * Cell}

KerfChoices == {0, DefaultKerf}

InitLinear ==
    /\ pc = "call"
    /\ NoCaller
    /\ pieces \in SeqsUpTo(LinearPieceChoices, MaxPieces)
    /\ stock_lengths \in SeqsUpTo(BoardLengths, MaxStock)
    /\ kerf \in KerfChoices
    /\ stock_list = <<>>
    /\ sorted_rect = <<>>
    /\ empty_bins = <<>>
    /\ open_bins = <<>>
    /\ result = EmptyResult
    /\ sorted_pieces = <<>>
    /\ stock_usage = <<>>
    /\ lin_result = NoLinResult

NextLinear ==
    \/ LinearCall
    \/ LinearPlaceExisting
    \/ LinearOpenBoard
    \/ LinearSkip
    \/ LinearReturn

SpecLinear == InitLinear /\ [][NextLinear]_vars

---------------------------------------------------------------------------
(* The project tools (tools/project.py, tools/cutlist.py) on one project:
   parts are added, removed and updated, custom pieces registered, and the
   two cut list handlers run the optimizer on the project's parts *)

MaxCustom == 1      \* custom pieces registered at most

\* (length, width, grain_direction) of the parts that are added
PartKinds ==
    {<<3 * Cell, Cell, "length">>, <<4 * Cell, Cell, "none">>,
     <<12 * Cell, Cell, "width">>}

PartIds == {"a", "b"}

PartChoices ==
    {Part(id, k[1], k[2], q, k[3]) :
        id \in PartIds, k \in PartKinds, q \in 1..MaxQty}

\* the length update_part is called with, when it is given one
UpdateLengths == {3 * Cell}

\* an optional argument: <<>> is None, <<v>> the value v
Optional(S) == {<<>>} \cup {<<v>> : v \in S}

\* the piece handed to add_custom_piece (label left at its default "")
CustomChoices == {CutPiece("c", 2 * Cell, Cell, 1, TRUE)}

\* the stock the handlers are called with
ProjectSheet == StockSheet(3 * Cell, 6 * Cell, "plywood")
ProjectBoards == <<12 * Cell>>

\* the locals of a finished optimizer call, gone once the handler returns
NoRun ==
    /\ pieces' = <<>>
    /\ stock_list' = <<>>
    /\ stock_lengths' = <<>>
    /\ sorted_rect' = <<>>
    /\ empty_bins' = <<>>
    /\ open_bins' = <<>>
    /\ sorted_pieces' = <<>>
    /\ stock_usage' = <<>>
    /\ result' = EmptyResult
    /\ lin_result' = NoLinResult
    /\ earlier' = NoEarlier

\* what a project operation leaves alone: everything of the optimizer
optimizer == <<pieces, stock_list, sorted_rect, empty_bins, open_bins, result,
               kerf, stock_lengths, sorted_pieces, stock_usage, lin_result,
               tool, earlier>>

\* ProjectTools.add_part: Project.add_part, ValueError turned into an error
\* result
ToolsAddPart(part) ==
    /\ pc = "idle"
    /\ LET r == add_part(parts, part)
       IN /\ parts' = r.parts
          /\ ret' = [op |-> "add_part", id |-> part.id, ok |-> ~r.raised]
    /\ UNCHANGED <<managers, pc, custom_pieces, optimizer>>

\* ProjectTools.remove_part: Project.remove_part, False turned into an error
\* result
ToolsRemovePart(part_id) ==
    /\ pc = "idle"
    /\ LET r == remove_part(parts, part_id)
       IN /\ parts' = r.parts
          /\ ret' = [op |-> "remove_part", id |-> part_id, ok |-> r.returned]
    /\ UNCHANGED <<managers, pc, custom_pieces, optimizer>>

\* ProjectTools.update_part with length and quantity given or None (width,
\* thickness and notes left None): the part found by get_part is changed in
\* place
ToolsUpdatePart(part_id, length, quantity) ==
    /\ pc = "idle"
    /\ LET i == get_part(parts, part_id)
       IN IF i = 0
          THEN /\ parts' = parts
               /\ ret' = [op |-> "update_part", id |-> part_id, ok |-> FALSE]
          ELSE /\ parts' =
                     [parts EXCEPT
                        ![i].dimensions.length =
                            IF length # <<>> THEN length[1] ELSE @,
                        ![i].quantity =
                            IF quantity # <<>> THEN quantity[1] ELSE @]
               /\ ret' = [op |-> "update_part", id |-> part_id, ok |-> TRUE]
    /\ UNCHANGED <<managers, pc, custom_pieces, optimizer>>

\* CutListTools.add_custom_piece: the piece, labelled `label or part_id`, is
\* appended to project._custom_pieces
AddCustomPiece(piece) ==
    /\ pc = "idle"
    /\ Len(custom_pieces) < MaxCustom
    /\ custom_pieces' =
           Append(custom_pieces,
                  [piece EXCEPT !.label = IF piece.label # "" THEN piece.label
                                          ELSE piece.part_id])
    /\ ret' = [op |-> "add_custom_piece", id |-> piece.part_id, ok |-> TRUE]
    /\ UNCHANGED <<managers, pc, parts, optimizer>>

\* CutListTools.generate_cutlist up to the packer: CutListOptimizer(project,
\* kerf) is built and optimize(stock) called, which makes its pieces with
\* generate_cut_pieces and its stock list from the one sheet
GenerateCutlist(k) ==
    /\ pc = "idle"
    /\ tool' = "generate_cutlist"
    /\ kerf' = k
    /\ pieces' = generate_cut_pieces(parts, k)
    /\ stock_list' = <<ProjectSheet>>
    /\ ret' = NoRet
    /\ pc' = "call"
    /\ UNCHANGED <<managers, parts, custom_pieces, sorted_rect, empty_bins, open_bins,
                   result, stock_lengths, sorted_pieces, stock_usage,
                   lin_result, earlier>>

\* CutListTools.generate_linear_cutlist up to the expansion: the optimizer is
\* built and optimize_linear(stock_lengths) called, which makes its pieces
\* with generate_cut_pieces
GenerateLinearCutlist(k) ==
    /\ pc = "idle"
    /\ tool' = "generate_linear_cutlist"
    /\ kerf' = k
    /\ pieces' = generate_cut_pieces(parts, k)
    /\ stock_lengths' = ProjectBoards
    /\ ret' = NoRet
    /\ pc' = "call"
    /\ UNCHANGED <<managers, parts, custom_pieces, stock_list, sorted_rect, empty_bins,
                   open_bins, result, sorted_pieces, stock_usage, lin_result,
                   earlier>>

\* the same optimizer is called a second time with the same stock: its
\* first result is kept by the caller, and the pieces are made again from
\* the project
RunAgain ==
    /\ pc = "done"
    /\ tool # ""
    /\ earlier.runs = 0
    /\ earlier' = [runs |-> 1, result |-> result, lin_result |-> lin_result]
    /\ pieces' = generate_cut_pieces(parts, kerf)
    /\ pc' = "call"
    /\ UNCHANGED <<managers, parts, custom_pieces, ret, tool, stock_list, sorted_rect,
                   empty_bins, open_bins, result, kerf, stock_lengths,
                   sorted_pieces, stock_usage, lin_result>>

\* the handler returns its summary of the result; the optimizer, with its
\* kerf, is gone
ToolReturn ==
    /\ pc = "done"
    /\ tool # ""
    /\ ret' = [op |-> tool, id |-> "", ok |-> TRUE]
    /\ tool' = ""
    /\ pc' = "idle"
    /\ NoRun
    /\ kerf' = DefaultKerf
    /\ UNCHANGED <<managers, parts, custom_pieces>>

InitProject ==
    /\ pc = "idle"
    /\ NoCaller
    /\ pieces = <<>>
    /\ stock_list = <<>>
    /\ stock_lengths = <<>>
    /\ sorted_rect = <<>>
    /\ empty_bins = <<>>
    /\ open_bins = <<>>
    /\ sorted_pieces = <<>>
    /\ stock_usage = <<>>
    /\ result = EmptyResult
    /\ lin_result = NoLinResult
    /\ kerf = DefaultKerf

NextProject ==
    \/ \E part \in PartChoices : ToolsAddPart(part)
    \/ \E id \in PartIds : ToolsRemovePart(id)
    \/ \E id \in PartIds, l \in Optional(UpdateLengths),
          q \in Optional(1..MaxQty) : ToolsUpdatePart(id, l, q)
    \/ \E piece \in CustomChoices : AddCustomPiece(piece)
    \/ \E k \in KerfChoices : GenerateCutlist(k)
    \/ \E k \in KerfChoices : GenerateLinearCutlist(k)
    \/ tool = "generate_cutlist" /\ OptimizeCall
    \/ PackIntoOpenBin
    \/ PackIntoNewBin
    \/ PackNowhere
    \/ OptimizeReturn
    \/ tool = "generate_linear_cutlist" /\ LinearCall
    \/ LinearPlaceExisting
    \/ LinearOpenBoard
    \/ LinearSkip
    \/ LinearReturn
    \/ RunAgain
    \/ ToolReturn

SpecProject == InitProject /\ [][NextProject]_vars

(***************************************************************************)
(* ProjectManager (tools/project.py): the registry of projects and the     *)
(* name of the active one, with the ProjectTools handlers that write them. *)
(* A registered project is a record of its name and its parts; the         *)
(* registry is the dict in insertion order.                                *)
(***************************************************************************)

\* Project(name=...) as the registry sees it
Project(name, ps) == [name |-> name, parts |-> ps]

\* the keys of a dict kept as a sequence of records with a `name`
Keys(dict) == {dict[i].name : i \in DOMAIN dict}

\* dict.get(name): the position of the entry, 0 for None
DictGet(dict, name) ==
    IF name \in Keys(dict)
    THEN CHOOSE i \in DOMAIN dict : dict[i].name = name
    ELSE 0

\* dict[value.name] = value: an existing key keeps its place and takes the
\* new value, a new key goes last
DictSet(dict, value) ==
    LET i == DictGet(dict, value.name)
    IN IF i = 0 THEN Append(dict, value) ELSE [dict EXCEPT ![i] = value]

\* ProjectManager.get_project(name): `if name:` is false for None (<<>>) and
\* for the empty string, `if self._active_project:` likewise
manager_get_project(projs, act, name) ==
    IF name # <<>> /\ name[1] # ""
    THEN DictGet(projs, name[1])
    ELSE IF act # <<>> /\ act[1] # ""
         THEN DictGet(projs, act[1])
         ELSE 0

\* ProjectManager.set_active(name): ValueError for an unknown name
set_active(projs, act, name) ==
    IF name \notin Keys(projs)
    THEN [active |-> act, raised |-> TRUE]
    ELSE [active |-> <<name>>, raised |-> FALSE]

\* ProjectManager.add_project(project): the project is stored under its name
\* and becomes active only when nothing is active yet
add_project(projs, act, project) ==
    [projects |-> DictSet(projs, project),
     active |-> IF act = <<>> THEN <<project.name>> ELSE act]

\* project names the handlers are called with
ProjectNames == {"", "p", "q"}

\* the parts a project file may hold
FileParts == {<<>>, <<Part("a", 3 * Cell, Cell, 1, "length")>>}

\* what a file path leads to: nothing readable (<<>>) or a saved project
FileChoices ==
    Optional({Project(n, ps) : n \in ProjectNames, ps \in FileParts})

\* everything the manager handlers leave alone
beside_manager == <<pc, parts, custom_pieces, assemblies, optimizer>>

\* ProjectTools.create_project(name) with the default units and material:
\* an error result when get_project(name) finds a project, else a new empty
\* project is added
CreateProject(name) ==
    /\ pc = "idle"
    /\ IF manager_get_project(projects, active, <<name>>) # 0
       THEN /\ UNCHANGED <<projects, active>>
            /\ ret' = [op |-> "create_project", id |-> name, ok |-> FALSE]
       ELSE LET r == add_project(projects, active, Project(name, <<>>))
            IN /\ projects' = r.projects
               /\ active' = r.active
               /\ ret' = [op |-> "create_project", id |-> name, ok |-> TRUE]
    /\ UNCHANGED beside_manager

\* ProjectTools.set_active_project(name): ProjectManager.set_active, its
\* ValueError turned into an error result
SetActiveProject(name) ==
    /\ pc = "idle"
    /\ LET r == set_active(projects, active, name)
       IN /\ active' = r.active
          /\ ret' = [op |-> "set_active_project", id |-> name,
                     ok |-> ~r.raised]
    /\ UNCHANGED <<projects, beside_manager>>

\* ProjectTools.load_project(filepath): the project read from the file is
\* added; a file that cannot be read gives an error result
LoadProject(file) ==
    /\ pc = "idle"
    /\ IF file = <<>>
       THEN /\ UNCHANGED <<projects, active>>
            /\ ret' = [op |-> "load_project", id |-> "", ok |-> FALSE]
       ELSE LET r == add_project(projects, active, file[1])
            IN /\ projects' = r.projects
               /\ active' = r.active
               /\ ret' = [op |-> "load_project", id |-> file[1].name,
                          ok |-> TRUE]
    /\ UNCHANGED beside_manager

\* a server with a fresh ProjectManager
InitManager == InitProject

NextManager ==
    \/ \E name \in ProjectNames : CreateProject(name)
    \/ \E name \in ProjectNames : SetActiveProject(name)
    \/ \E file \in FileChoices : LoadProject(file)

SpecManager == InitManager /\ [][NextManager]_vars

(***************************************************************************)
(* AssemblyManager (engine/assembly.py) of the project: named assemblies,  *)
(* each listing part ids, kept as the dict in insertion order.             *)
(***************************************************************************)

\* Assembly(name=..., parts=...)
Assembly(name, part_ids) == [name |-> name, parts |-> part_ids]

\* `x in list`
InList(list, x) == \E k \in DOMAIN list : list[k] = x

\* AssemblyManager.create_assembly(name, part_ids) on a project with parts
\* ps; part_ids is None (<<>>) or a list (<<list>>). ValueError for a name
\* already there and for a listed id that get_part does not find; `if
\* part_ids:` skips the lookups for None and for the empty list
create_assembly(asms, ps, name, part_ids) ==
    LET ids == IF part_ids = <<>> THEN <<>> ELSE part_ids[1]
    IN IF name \in Keys(asms)
       THEN [assemblies |-> asms, raised |-> TRUE]
       ELSE IF \E k \in DOMAIN ids : get_part(ps, ids[k]) = 0
            THEN [assemblies |-> asms, raised |-> TRUE]
            ELSE [assemblies |-> DictSet(asms, Assembly(name, ids)),
                  raised |-> FALSE]

\* AssemblyManager.add_part_to_assembly(assembly_name, part_id): ValueError
\* for an unknown assembly or part; the id is appended unless already listed
add_part_to_assembly(asms, ps, assembly_name, part_id) ==
    LET i == DictGet(asms, assembly_name)
    IN IF i = 0 \/ get_part(ps, part_id) = 0
       THEN [assemblies |-> asms, raised |-> TRUE]
       ELSE [assemblies |->
                 IF InList(asms[i].parts, part_id)
                 THEN asms
                 ELSE [asms EXCEPT ![i].parts = Append(@, part_id)],
             raised |-> FALSE]

\* assembly names the methods are called with
AssemblyNames == {"x", "y"}

\* the part_ids argument of create_assembly: None or a list of ids
PartIdLists == Optional({<<>>, <<"a">>, <<"b", "a">>, <<"a", "a">>})

\* the parts added to the project that holds the assemblies
AssemblyParts == {Part(id, 3 * Cell, Cell, 1, "length") : id \in PartIds}

\* everything the assembly methods leave alone
beside_assemblies ==
    <<pc, parts, custom_pieces, projects, active, optimizer>>

\* create_assembly called on the project's AssemblyManager
CreateAssembly(name, part_ids) ==
    /\ pc = "idle"
    /\ LET r == create_assembly(assemblies, parts, name, part_ids)
       IN /\ assemblies' = r.assemblies
          /\ ret' = [op |-> "create_assembly", id |-> name, ok |-> ~r.raised]
    /\ UNCHANGED beside_assemblies

\* add_part_to_assembly called on the project's AssemblyManager
AddPartToAssembly(assembly_name, part_id) ==
    /\ pc = "idle"
    /\ LET r == add_part_to_assembly(assemblies, parts, assembly_name, part_id)
       IN /\ assemblies' = r.assemblies
          /\ ret' = [op |-> "add_part_to_assembly", id |-> assembly_name,
                     ok |-> ~r.raised]
    /\ UNCHANGED beside_assemblies

\* a project without parts and its fresh AssemblyManager
InitAssembly == InitProject

NextAssembly ==
    \/ \E part \in AssemblyParts : ToolsAddPart(part)
    \/ \E id \in PartIds : ToolsRemovePart(id)
    \/ \E name \in AssemblyNames, ids \in PartIdLists :
          CreateAssembly(name, ids)
    \/ \E name \in AssemblyNames, id \in PartIds :
          AddPartToAssembly(name, id)

SpecAssembly == InitAssembly /\ [][NextAssembly]_vars

---------------------------------------------------------------------------
(* Vocabulary of the properties *)

Done == pc = "done"

\* every PlacedPiece of a result, sheet by sheet
AllPlaced(res) ==
    Flatten([n \in 1..Len(res.sheets) |-> res.sheets[n].pieces])

\* the rectangle a PlacedPiece exposes: [x, x+width) x [y, y+length)
EffOverlap(a, b) ==
    /\ a.x < b.x + PlacedWidth(b) /\ b.x < a.x + PlacedWidth(a)
    /\ a.y < b.y + PlacedLength(b) /\ b.y < a.y + PlacedLength(a)

\* area of one instance of a piece
InstanceArea(p) == p.length * p.width

\* instances requested of pieces equal to p
Requested(p) ==
    SumSeq([i \in 1..Len(pieces) |->
               IF pieces[i] = p /\ pieces[i].quantity > 0
               THEN pieces[i].quantity ELSE 0])

\* PlacedPieces of a result whose piece equals p
PlacedCount(res, p) ==
    Len(SelectSeq(AllPlaced(res), LAMBDA pp : pp.piece = p))

PlacedArea(res) ==
    LET ap == AllPlaced(res)
    IN SumSeq([k \in 1..Len(ap) |-> InstanceArea(ap[k].piece)])

\* the sequence s without repeated values, in order of first occurrence
Distinct(s) ==
    SelectSeq([i \in 1..Len(s) |-> IF \E j \in 1..(i - 1) : s[j] = s[i]
                                   THEN <<>> ELSE <<s[i]>>],
              LAMBDA e : e # <<>>)

\* area of the requested instances that no PlacedPiece stands for
MissingArea(res) ==
    LET d == Distinct(pieces)
    IN SumSeq([i \in 1..Len(d) |->
                  (Requested(d[i][1]) - PlacedCount(res, d[i][1]))
                  * InstanceArea(d[i][1])])

\* a fraction num/den (den > 0) lies in [0, 100]
InPercentRange(f) == 0 <= f.num /\ f.num <= 100 * f.den

---------------------------------------------------------------------------
(* Soundness of the packer itself, in the packer's own frame: every placed
   rectangle lies in its bin, no two of a bin intersect, and each has the
   sides of its rectangle, swapped or not *)

PackerFrameSound ==
    \A b \in 1..Len(open_bins) :
        LET rs == open_bins[b].rectangles
        IN /\ \A k \in 1..Len(rs) :
                 /\ rs[k].x >= 0 /\ rs[k].y >= 0
                 /\ rs[k].x + rs[k].width <= open_bins[b].width
                 /\ rs[k].y + rs[k].height <= open_bins[b].height
           /\ \A k, m \in 1..Len(rs) : k # m => ~Intersects(rs[k], rs[m])

---------------------------------------------------------------------------
(* C1..C10 *)

\* C1: in every result of optimize, two distinct PlacedPieces of the same
\* sheet have non-intersecting rectangles [x, x+width) x [y, y+length),
\* width and length being the effective ones of PlacedPiece.
C1_NoOverlap ==
    Done => \A n \in 1..Len(result.sheets) :
                LET ps == result.sheets[n].pieces
                IN \A i, j \in 1..Len(ps) :
                       i # j => ~EffOverlap(ps[i], ps[j])

\* C2: in every result of optimize, each PlacedPiece lies inside its sheet:
\* x >= 0, y >= 0, x + width <= sheet.length, y + length <= sheet.width.
C2_Containment ==
    Done => \A n \in 1..Len(result.sheets) :
                LET sh == result.sheets[n].stock
                    ps == result.sheets[n].pieces
                IN \A i \in 1..Len(ps) :
                       /\ ps[i].x >= 0 /\ ps[i].y >= 0
                       /\ ps[i].x + PlacedWidth(ps[i]) <= sh.length
                       /\ ps[i].y + PlacedLength(ps[i]) <= sh.width

\* C3: in every result of optimize, no PlacedPiece of a grain-constrained
\* piece has rotated = True, square pieces included.
C3_RotationRespect ==
    Done => \A k \in 1..Len(AllPlaced(result)) :
                AllPlaced(result)[k].piece.grain_constrained
                    => ~AllPlaced(result)[k].rotated

\* C4: optimize accounts for every expanded instance: the PlacedPieces of a
\* piece never outnumber its requested instances, a piece with an instance
\* that is not placed is in result.unplaced, and every PlacedPiece is a
\* requested piece.
C4_AllAccounted ==
    Done =>
        /\ \A i \in 1..Len(pieces) :
              /\ PlacedCount(result, pieces[i]) <= Requested(pieces[i])
              /\ PlacedCount(result, pieces[i]) < Requested(pieces[i])
                    => pieces[i] \in Range(result.unplaced)
        /\ \A k \in 1..Len(AllPlaced(result)) :
              /\ AllPlaced(result)[k].piece \in Range(pieces)
              /\ AllPlaced(result)[k].piece.quantity >= 1

\* C4 witness: a result with a placed piece and an unplaced one
C4_Witness ==
    /\ Done
    /\ AllPlaced(result) # <<>>
    /\ result.unplaced # <<>>
    /\ \E i \in 1..Len(pieces) : PlacedCount(result, pieces[i]) >= 2

\* C5: for every run of optimize, total_parts_area equals the area of the
\* PlacedPieces (one instance each) plus the areas of the entries of
\* result.unplaced.
C5_Conservation ==
    Done => result.total_parts_area
              = PlacedArea(result)
                + SumSeq([k \in 1..Len(result.unplaced) |->
                             PieceArea(result.unplaced[k])])

\* the lengths optimize_linear records on its boards
LinearPlacedLengths(res) ==
    Flatten([i \in 1..Len(res.stocks) |->
                [k \in 1..Len(res.stocks[i].pieces) |->
                    res.stocks[i].pieces[k].length]])

\* the lengths of all requested instances
RequestedLengths ==
    LET e == ExpandPieces(pieces) IN [k \in 1..Len(e) |-> e[k].length]

\* C6: optimize_linear never silently drops a piece: the requested lengths
\* sum to the placed lengths plus the lengths reported unplaced (the
\* returned dict reports none: it has no such entry).
C6_LinearNoSilentDrop ==
    Done => SumSeq(RequestedLengths) = SumSeq(LinearPlacedLengths(lin_result))

\* C7: for every result of optimize, 0 <= waste_percentage <= 100 whenever
\* total_stock_area > 0, and waste_percentage = 0 when no sheet was used.
C7_WasteBounds ==
    Done => /\ result.total_stock_area > 0
                => InPercentRange(result.waste_percentage)
            /\ result.sheets = <<>> => result.waste_percentage.num = 0

\* C8: for every result of optimize_linear (positive lengths, kerf >= 0),
\* 0 <= waste_percentage <= 100 whenever total_stock_length > 0, and
\* waste_percentage = 0 and waste_length = 0 when no board was opened.
C8_LinearWasteBounds ==
    Done => /\ lin_result.total_stock_length > 0
                => InPercentRange(lin_result.waste_percentage)
            /\ lin_result.stocks = <<>>
                => /\ lin_result.waste_percentage.num = 0
                   /\ lin_result.waste_length = 0

\* C8 witness: a finished run with kerf that filled a board with two pieces
\* and left waste
C8_Witness ==
    /\ Done
    /\ kerf > 0
    /\ \E i \in 1..Len(lin_result.stocks) :
           Len(lin_result.stocks[i].pieces) >= 2
    /\ lin_result.waste_percentage.num > 0

\* C9 as stated: when a piece is unplaced, total_parts_area and
\* waste_percentage are computed from the placed pieces only.
C9_MetricsFromPlacedOnly ==
    Done /\ result.unplaced # <<>> =>
        /\ result.total_parts_area = PlacedArea(result)
        /\ result.waste_percentage
             = WastePercentage(result.total_stock_area, PlacedArea(result))

\* C9 as amended: when a piece is unplaced, total_parts_area counts every
\* requested instance, the placed ones and the ones left unplaced, and
\* waste_percentage is computed from that total.
C9_MetricsFromAllRequested ==
    Done /\ result.unplaced # <<>> =>
        /\ result.total_parts_area = PlacedArea(result) + MissingArea(result)
        /\ result.total_stock_area > 0 =>
              /\ result.waste_percentage.den = result.total_stock_area
              /\ result.waste_percentage.num
                   = (result.total_stock_area
                      - (PlacedArea(result) + MissingArea(result))) * 100

\* C9 witness: a result with sheets in use and a piece left unplaced
C9_Witness ==
    /\ Done
    /\ result.unplaced # <<>>
    /\ result.total_stock_area > 0
    /\ MissingArea(result) > 0

\* C10: a piece with length <= 0, width <= 0 or quantity <= 0 is rejected
\* before expansion and packing; no such call gets past its first step or
\* returns a result.
C10_InvalidPieceRejected ==
    pc # "call" => \A i \in 1..Len(pieces) :
                       /\ pieces[i].length > 0
                       /\ pieces[i].width > 0
                       /\ pieces[i].quantity > 0

---------------------------------------------------------------------------
(* C11..C20 *)

\* C11: optimize_linear (and likewise optimize) rejects an empty stock
\* catalog and a non-positive stock length before any packing attempt; no
\* such call gets past its first step or returns a result.
C11_InvalidStockRejected ==
    pc # "call" => /\ stock_lengths # <<>>
                   /\ \A i \in 1..Len(stock_lengths) : stock_lengths[i] > 0

\* a sheet can contain one instance of p in an orientation p allows: as
\* given, or turned by 90 degrees when p is not grain constrained
AllowedFit(p, sheet) ==
    \/ p.length <= sheet.length /\ p.width <= sheet.width
    \/ /\ ~p.grain_constrained
       /\ p.length <= sheet.width /\ p.width <= sheet.length

\* C12: in every result of optimize, a requested piece that no stock type
\* can contain in an orientation it allows is listed in result.unplaced and
\* has no PlacedPiece on any sheet; and when nothing at all is placed the
\* result has no sheets, total_stock_area = 0 and waste_percentage = 0.
C12_UnplaceableNotFatal ==
    Done =>
        /\ \A i \in 1..Len(pieces) :
              (/\ pieces[i].quantity > 0
               /\ \A s \in 1..Len(stock_list) :
                     ~AllowedFit(pieces[i], stock_list[s]))
              => /\ pieces[i] \in Range(result.unplaced)
                 /\ PlacedCount(result, pieces[i]) = 0
        /\ AllPlaced(result) = <<>> =>
              /\ result.sheets = <<>>
              /\ result.total_stock_area = 0
              /\ result.waste_percentage.num = 0

\* C13: when the optimizer is run a second time with the same pieces, stock
\* and kerf, the second run returns exactly what the first returned: the
\* same sheets or boards in the same order, the same pieces at the same
\* positions in the same order, the same unplaced list and the same totals.
C13_Deterministic ==
    (Done /\ earlier.runs = 1) =>
        /\ result = earlier.result
        /\ lin_result = earlier.lin_result

\* a second run of optimize is finished whose first run placed pieces on
\* more than one sheet and left a piece unplaced
C13_Witness ==
    /\ Done /\ earlier.runs = 1
    /\ Len(earlier.result.sheets) > 1
    /\ earlier.result.unplaced # <<>>

\* the optimizer is running, or starts or ends running, in this step
Running == pc \in {"call", "packing", "fitting"}

\* C14: no step of a run of optimize or optimize_linear, from the call to
\* the return, changes the project's part list or any Part in it, the
\* project's custom pieces, the piece list or any CutPiece in it, the stock
\* catalog, or the optimizer's own fields (project and kerf); a run that
\* starts leaves the project as it was.
C14_InputsUntouched ==
    [][/\ Running =>
             /\ parts' = parts /\ custom_pieces' = custom_pieces
             /\ pieces' = pieces
             /\ stock_list' = stock_list /\ stock_lengths' = stock_lengths
             /\ kerf' = kerf
       /\ (pc' = "call") =>
             /\ parts' = parts /\ custom_pieces' = custom_pieces]_vars

\* optimize_linear has returned boards for two parts that were given
\* shortest first, so that sorting had to reorder them
C14_Witness ==
    /\ Done /\ tool = "generate_linear_cutlist"
    /\ Len(parts) = 2 /\ Len(pieces) = 2
    /\ pieces[1].length < pieces[2].length
    /\ pieces[1].quantity > 1
    /\ lin_result.stocks # <<>>

\* how many entries of the sequence s satisfy Test
Count(s, Test(_)) == Cardinality({k \in 1..Len(s) : Test(s[k])})

\* C15: when a cut list handler calls the optimizer, the pieces made from the
\* project are, in project order, one CutPiece per part, with the part's id
\* and quantity, its length and width each increased by one kerf, and
\* grain_constrained exactly when the part's grain direction is not "none";
\* the optimizer's first step then makes exactly `quantity` instances of each
\* piece (entries of sorted_pieces for optimize_linear, rectangles handed to
\* the packer for optimize).
C15_DemandExpansion ==
    [][/\ (pc' = "call") =>
             /\ Len(pieces') = Len(parts')
             /\ \A i \in 1..Len(parts') :
                   /\ pieces'[i].part_id = parts'[i].id
                   /\ pieces'[i].quantity = parts'[i].quantity
                   /\ pieces'[i].length = parts'[i].dimensions.length + kerf'
                   /\ pieces'[i].width = parts'[i].dimensions.width + kerf'
                   /\ pieces'[i].grain_constrained
                          <=> (parts'[i].grain_direction # "none")
       /\ (pc = "call" /\ pc' = "fitting") =>
             \A i \in 1..Len(pieces) :
                 Count(sorted_pieces', LAMBDA p : p = pieces[i])
                     = pieces[i].quantity
       /\ (pc = "call" /\ pc' = "packing") =>
             \A i \in 1..Len(pieces) :
                 Count(sorted_rect',
                       LAMBDA r : PieceMap(pieces)[r[3] + 1] = pieces[i])
                     = pieces[i].quantity]_vars

\* optimize_linear has just expanded the pieces of two parts, one of them
\* wanted twice and one without grain, made with a kerf that is not zero
C15_Witness ==
    /\ pc = "fitting" /\ tool = "generate_linear_cutlist"
    /\ kerf > 0
    /\ Len(parts) = 2
    /\ parts[1].quantity = 2 /\ parts[2].quantity = 1
    /\ parts[2].grain_direction = "none"
    /\ Len(sorted_pieces) = 3
    /\ stock_usage = <<>>

\* the nominal length of the part a recorded piece was made from
NominalLength(part_id) == parts[get_part(parts, part_id)].dimensions.length

\* C16: in every result of optimize_linear run on the pieces of the project's
\* parts, each piece takes its nominal length plus one kerf of its board: a
\* piece that follows another on a board starts where that one started plus
\* that one's nominal length plus the kerf.
C16_KerfChargedOnce ==
    (Done /\ tool = "generate_linear_cutlist") =>
        \A b \in 1..Len(lin_result.stocks) :
            LET ps == lin_result.stocks[b].pieces
            IN \A k \in 2..Len(ps) :
                   ps[k].position =
                       ps[k - 1].position
                       + NominalLength(ps[k - 1].part_id) + kerf

\* C17: in every result of optimize_linear, each piece recorded on a board
\* lies within the board, 0 <= position and position + length <= the board's
\* length, and of any two pieces of a board one ends no later than the other
\* starts.
C17_LinearWithinAndDisjoint ==
    Done =>
        \A b \in 1..Len(lin_result.stocks) :
            LET board == lin_result.stocks[b]
                ps == board.pieces
            IN /\ \A k \in 1..Len(ps) :
                      /\ 0 <= ps[k].position
                      /\ ps[k].position + ps[k].length <= board.length
               /\ \A k, m \in 1..Len(ps) :
                      k < m => \/ ps[k].position + ps[k].length
                                     <= ps[m].position
                               \/ ps[m].position + ps[m].length
                                     <= ps[k].position

\* optimize_linear has returned more than one board, one of them holding two
\* pieces that fill it to the end
C17_Witness ==
    /\ Done /\ tool = ""
    /\ Len(lin_result.stocks) > 1
    /\ \E b \in 1..Len(lin_result.stocks) :
          /\ Len(lin_result.stocks[b].pieces) > 1
          /\ lin_result.stocks[b].remaining = 0

\* the part ids of the pieces a finished run reports, placed or unplaced
ReportedIds ==
    {AllPlaced(result)[k].piece.part_id : k \in 1..Len(AllPlaced(result))}
    \cup {result.unplaced[k].part_id : k \in 1..Len(result.unplaced)}
    \cup UNION {{lin_result.stocks[b].pieces[k].part_id :
                     k \in 1..Len(lin_result.stocks[b].pieces)} :
                 b \in 1..Len(lin_result.stocks)}

\* C18: a custom piece registered with add_custom_piece is not among the
\* project's parts, and every later run of generate_cutlist or
\* generate_linear_cutlist on the project reports it among its placed or
\* unplaced pieces.
C18_CustomPieceInDemand ==
    /\ \A c \in 1..Len(custom_pieces) :
          get_part(parts, custom_pieces[c].part_id) = 0
    /\ (Done /\ tool # "") =>
          \A c \in 1..Len(custom_pieces) :
              custom_pieces[c].part_id \in ReportedIds

\* no two parts of the list have the same id
UniqueIds(ps) == \A i, j \in 1..Len(ps) : i # j => ps[i].id # ps[j].id

\* this step is a project operation named op
ProjectStep(op) == pc = "idle" /\ pc' = "idle" /\ ret'.op = op

\* C19: whatever parts are added, removed and updated from the empty project
\* on, no two parts of the project have the same id; an add_part with an id
\* that is present is refused (ValueError, an error result from the tool)
\* and leaves the part list as it was, and any other add_part appends the
\* part.
C19_UniquePartIds ==
    [][/\ UniqueIds(parts')
       /\ ProjectStep("add_part") =>
             IF get_part(parts, ret'.id) # 0
             THEN ~ret'.ok /\ parts' = parts
             ELSE /\ ret'.ok
                  /\ Len(parts') = Len(parts) + 1
                  /\ SubSeq(parts', 1, Len(parts)) = parts
                  /\ parts'[Len(parts')].id = ret'.id]_vars

\* an add_part was refused on a project that has two parts
C19_Witness ==
    /\ ret = [op |-> "add_part", id |-> "a", ok |-> FALSE]
    /\ Len(parts) = 2
    /\ parts[2].id = "a"

\* the list ps without its entry at position i
Without(ps, i) == SubSeq(ps, 1, i - 1) \o SubSeq(ps, i + 1, Len(ps))

\* C20: remove_part(id) returns True exactly when a part with that id was in
\* the list; then the list afterwards is the list before without that one
\* part, the others in their order, and otherwise the list is unchanged.
C20_RemovePartFrame ==
    [][ProjectStep("remove_part") =>
          LET present == {i \in 1..Len(parts) : parts[i].id = ret'.id}
          IN /\ ret'.ok <=> (present # {})
             /\ IF present # {}
                THEN \E i \in present : parts' = Without(parts, i)
                ELSE parts' = parts]_vars

\* part "a" was removed from a project that keeps its part "b"
C20_Witness ==
    /\ ret = [op |-> "remove_part", id |-> "a", ok |-> TRUE]
    /\ Len(parts) = 1
    /\ parts[1].id = "b"

---------------------------------------------------------------------------
(* C21..C30 *)

\* the length charged to a board for a piece
Charged(piece) == piece.length + kerf

\* the opened boards with room for the piece, before it is placed
BoardsWithRoom(piece) ==
    {i \in 1..Len(stock_usage) : stock_usage[i].remaining >= Charged(piece)}

\* a turn of the loop of optimize_linear is taken in this step
LoopTurn == pc = "fitting" /\ sorted_pieces # <<>>

\* C21: in every turn of the loop of optimize_linear, when some opened board
\* has at least the charged length left, the piece is recorded on the
\* earliest-opened such board and on no other and no board is opened; a
\* board is opened only when no opened board has that much left.
C21_FirstFit ==
    [][LoopTurn =>
          LET piece == Head(sorted_pieces)
              room == BoardsWithRoom(piece)
          IN IF room # {}
             THEN LET first == CHOOSE i \in room : \A j \in room : i <= j
                  IN /\ Len(stock_usage') = Len(stock_usage)
                     /\ stock_usage'[first].pieces =
                            Append(stock_usage[first].pieces,
                                   [part_id |-> piece.part_id,
                                    length |-> piece.length,
                                    position |-> stock_usage[first].length
                                        - stock_usage[first].remaining])
                     /\ \A i \in 1..Len(stock_usage) :
                            i # first => stock_usage'[i] = stock_usage[i]
             ELSE SubSeq(stock_usage', 1, Len(stock_usage)) = stock_usage
      ]_vars

\* two boards are open and the piece recorded last on the first of them is
\* shorter than the piece that opened the second, which had room for it too
C21_Witness ==
    /\ pc = "fitting" /\ Len(stock_usage) = 2
    /\ Len(stock_usage[1].pieces) = 2
    /\ Len(stock_usage[2].pieces) = 1
    /\ stock_usage[1].pieces[2].length < stock_usage[2].pieces[1].length
    /\ stock_usage[2].remaining
           >= stock_usage[1].pieces[2].length + kerf

\* C22: whenever optimize_linear opens a board for a piece, the board's
\* length is the smallest length of the catalog that is at least the charged
\* length of the piece, and the piece is its only entry, at position 0; every
\* opened board has a length of the catalog.
C22_SmallestSuitableBoard ==
    [][/\ \A b \in 1..Len(stock_usage') :
             /\ stock_usage'[b].length \in Range(stock_lengths)
             /\ stock_usage'[b].stock_length = stock_usage'[b].length
       /\ (LoopTurn /\ Len(stock_usage') > Len(stock_usage)) =>
             LET piece == Head(sorted_pieces)
                 board == stock_usage'[Len(stock_usage')]
             IN /\ Len(stock_usage') = Len(stock_usage) + 1
                /\ board.length >= Charged(piece)
                /\ \A i \in 1..Len(stock_lengths) :
                       stock_lengths[i] >= Charged(piece)
                           => board.length <= stock_lengths[i]
                /\ board.pieces = <<[part_id |-> piece.part_id,
                                     length |-> piece.length,
                                     position |-> 0]>>
      ]_vars

\* from a catalog that lists its longer length first, the shorter one was
\* opened for a piece that both could take
C22_Witness ==
    /\ pc = "fitting"
    /\ Len(stock_lengths) = 2 /\ stock_lengths[1] > stock_lengths[2]
    /\ Len(stock_usage) = 1
    /\ stock_usage[1].length = stock_lengths[2]
    /\ Len(stock_usage[1].pieces) = 1

\* the place of a piece identifier in the order of identifiers
IdRank(part_id) == IF part_id = "a" THEN 1 ELSE IF part_id = "b" THEN 2 ELSE 3

\* C23: the pieces optimize_linear still has to process are in order of
\* length descending and, among equal lengths, in order of identifier,
\* whatever the order of the piece list it was given.
C23_SortedByLengthThenId ==
    pc = "fitting" =>
        \A k \in 1..(Len(sorted_pieces) - 1) :
            \/ sorted_pieces[k].length > sorted_pieces[k + 1].length
            \/ /\ sorted_pieces[k].length = sorted_pieces[k + 1].length
               /\ IdRank(sorted_pieces[k].part_id)
                      <= IdRank(sorted_pieces[k + 1].part_id)

\* the boards of a linear result, and the entries recorded on them
BoardEntries(res) ==
    Flatten([b \in 1..Len(res.stocks) |-> res.stocks[b].pieces])

\* C24: in every result of optimize_linear, total_stock_length is the sum of
\* the lengths of the opened boards, total_used_length is the sum over the
\* placed pieces of the length that was charged to the board for them,
\* waste_length is the difference of the two, and so waste_length is the sum
\* of what remains on the boards.
C24_LinearTotals ==
    Done =>
        LET boards == lin_result.stocks
            entries == BoardEntries(lin_result)
        IN /\ lin_result.total_stock_length =
                  SumSeq([b \in 1..Len(boards) |-> boards[b].length])
           /\ lin_result.total_used_length =
                  SumSeq([k \in 1..Len(entries) |-> entries[k].length + kerf])
           /\ lin_result.waste_length =
                  lin_result.total_stock_length - lin_result.total_used_length
           /\ lin_result.waste_length =
                  SumSeq([b \in 1..Len(boards) |-> boards[b].remaining])

\* the charged lengths of the first n entries of a board, summed
ChargedBefore(board, n) ==
    SumSeq([k \in 1..n |-> board.pieces[k].length + kerf])

\* what C28 says of one opened board
BoardSound(board) ==
    /\ 0 <= board.remaining /\ board.remaining <= board.length
    /\ board.remaining = board.length - ChargedBefore(board, Len(board.pieces))
    /\ \A k \in 1..Len(board.pieces) :
          board.pieces[k].position = ChargedBefore(board, k - 1)
    /\ \A k \in 2..Len(board.pieces) :
          board.pieces[k - 1].position < board.pieces[k].position

\* C28: at every moment of optimize_linear each opened board has
\* 0 <= remaining <= length and remaining = length minus the lengths charged
\* for its entries, each entry's position is the board's length minus what
\* remained just before it was placed (the lengths charged before it), so
\* positions on a board increase strictly; and a loop turn removes no board,
\* keeps the boards in their order and only adds entries at the end.
C28_BoardInvariant ==
    [][/\ \A b \in 1..Len(stock_usage') : BoardSound(stock_usage'[b])
       /\ LoopTurn =>
             /\ Len(stock_usage') >= Len(stock_usage)
             /\ \A b \in 1..Len(stock_usage) :
                   /\ stock_usage'[b].length = stock_usage[b].length
                   /\ Len(stock_usage'[b].pieces) >= Len(stock_usage[b].pieces)
                   /\ SubSeq(stock_usage'[b].pieces, 1,
                             Len(stock_usage[b].pieces))
                          = stock_usage[b].pieces
      ]_vars

\* with a kerf that is not zero, two boards are open, one holding two
\* entries, and pieces are still to be processed
C28_Witness ==
    /\ pc = "fitting" /\ kerf > 0
    /\ sorted_pieces # <<>>
    /\ Len(stock_usage) = 2
    /\ \E b \in 1..2 : Len(stock_usage[b].pieces) = 2

\* the opened bins that hold a rectangle, in opening order
UsedBins ==
    SelectSeq(open_bins, LAMBDA b : b.rectangles # <<>>)

\* the stock type a bin was opened from: the one whose add_bin call gave the
\* bin its width and height
OriginType(bin) ==
    stock_list[CHOOSE i \in 1..Len(stock_list) :
                   /\ ToMils(stock_list[i].length) = bin.width
                   /\ ToMils(stock_list[i].width) = bin.height]

\* C25: in every result of optimize, result.sheets lists the used sheets in
\* the order they were opened, each paired with the stock type its bin was
\* opened from, and total_stock_area is the sum of the areas of those types.
C25_SheetKeepsItsType ==
    Done =>
        /\ Len(result.sheets) = Len(UsedBins)
        /\ \A n \in 1..Len(UsedBins) :
               n <= Len(result.sheets)
                   => result.sheets[n].stock = OriginType(UsedBins[n])
        /\ result.total_stock_area =
               SumSeq([n \in 1..Len(UsedBins) |->
                          SheetArea(OriginType(UsedBins[n]))])

\* the rectangle the packer holds for a PlacedPiece of the n-th used bin
PackedRect(n, k) == UsedBins[n].rectangles[k]

\* the packer turned the rectangle: its sides in the bin are those submitted,
\* exchanged, and not those submitted
Swapped(rect, piece) ==
    /\ rect.width = ToMils(piece.width) /\ rect.height = ToMils(piece.length)
    /\ ~(rect.width = ToMils(piece.length)
         /\ rect.height = ToMils(piece.width))

\* C26: in every result of optimize, a PlacedPiece has rotated = True exactly
\* when the packer placed its rectangle with the submitted sides exchanged; a
\* rectangle placed as submitted, a square among them, has rotated = False.
C26_RotatedIffSwapped ==
    Done =>
        \A n \in 1..Len(result.sheets) :
            \A k \in 1..Len(result.sheets[n].pieces) :
                LET pp == result.sheets[n].pieces[k]
                IN pp.rotated <=> Swapped(PackedRect(n, k), pp.piece)

\* C27: in every result of optimize, total_parts_area is the sum over the
\* requested pieces, placed or not, of length x width x quantity,
\* result.sheets has one entry per used sheet, total_stock_area is the sum
\* over those entries of the entry's sheet length x width, and when
\* total_stock_area > 0
\* waste_percentage is (total_stock_area - total_parts_area) /
\* total_stock_area x 100.
C27_AreaTotals ==
    Done =>
        /\ result.total_parts_area =
               SumSeq([i \in 1..Len(pieces) |->
                          pieces[i].length * pieces[i].width
                          * pieces[i].quantity])
        /\ Len(result.sheets) = Len(UsedBins)
        /\ result.total_stock_area =
               SumSeq([n \in 1..Len(result.sheets) |->
                          result.sheets[n].stock.length
                          * result.sheets[n].stock.width])
        /\ result.total_stock_area > 0 =>
               /\ result.waste_percentage.den = result.total_stock_area
               /\ result.waste_percentage.num =
                      (result.total_stock_area - result.total_parts_area)
                      * 100

\* a result that uses sheets of two different types and leaves a piece
\* unplaced
C27_Witness ==
    /\ Done
    /\ Len(result.sheets) > 1
    /\ result.sheets[1].stock.length # result.sheets[1].stock.width
    /\ result.sheets[1].stock # result.sheets[2].stock
    /\ result.unplaced # <<>>

\* the active name is None exactly when the registry is empty, and otherwise
\* names a registered project
ActiveValid(projs, act) ==
    /\ (act = <<>>) <=> (projs = <<>>)
    /\ act # <<>> => act[1] \in Keys(projs)

\* C29: the ProjectManager keeps a valid active project: the active name is
\* None exactly when no project is registered and otherwise names a
\* registered project; the first project added becomes active and later
\* additions (create_project, load_project) leave it; set_active with an
\* unknown name fails and leaves the active name; create_project with a
\* registered name returns an error and leaves the registry
C29_ActiveProjectValid ==
    [][/\ ActiveValid(projects, active)
       /\ ActiveValid(projects', active')
       /\ (projects = <<>> /\ projects' # <<>>)
              => active' = <<projects'[1].name>>
       /\ (active # <<>>
           /\ (ProjectStep("create_project") \/ ProjectStep("load_project")))
              => active' = active
       /\ (ProjectStep("set_active_project") /\ ret'.id \notin Keys(projects))
              => ~ret'.ok /\ active' = active
       /\ (ProjectStep("create_project") /\ ret'.id \in Keys(projects))
              => ~ret'.ok /\ projects' = projects /\ active' = active
      ]_vars

\* how often an id is listed
Listed(list, x) == Cardinality({k \in DOMAIN list : list[k] = x})

\* C30: assembly membership stays referentially intact: every part id listed
\* in an assembly is the id of a part now in the project, assembly names are
\* unique, create_assembly with an existing name fails and changes nothing,
\* and add_part_to_assembly never lists a part a second time
C30_AssemblyMembershipIntact ==
    [][/\ \A i \in DOMAIN assemblies' :
              \A k \in DOMAIN assemblies'[i].parts :
                  get_part(parts', assemblies'[i].parts[k]) # 0
       /\ \A i, j \in DOMAIN assemblies' :
              i # j => assemblies'[i].name # assemblies'[j].name
       /\ (ProjectStep("create_assembly") /\ ret'.id \in Keys(assemblies))
              => ~ret'.ok /\ assemblies' = assemblies
       /\ ProjectStep("add_part_to_assembly")
              => /\ Len(assemblies') = Len(assemblies)
                 /\ \A i \in DOMAIN assemblies : \A id \in PartIds :
                        Listed(assemblies'[i].parts, id)
                            <= IF Listed(assemblies[i].parts, id) = 0 THEN 1
                               ELSE Listed(assemblies[i].parts, id)
      ]_vars

====
